---- MODULE Spec2Model ----
(***************************************************************************)
(* A model of the canvas interaction engine:                               *)
(*   - CanvasFilterModule (initialize / previewFilter / completion         *)
(*     listener / applyFilter / cancelFilter / destroy), with the          *)
(*     suspension points of its async functions as separate steps;         *)
(*   - the handlers of setStageEventHandlers: the key handlers and the   *)
(*     tool state they drive, the pointer handlers (mousedown, mouseup,    *)
(*     mousemove, mouseleave, mouseenter) with the primitives they emit,   *)
(*     and the wheel and drag handlers with the viewport they publish.     *)
(***************************************************************************)
EXTENDS Integers, Sequences, FiniteSets, TLC

Null == "null"

\* a position getter's null
NoPos == [x |-> -1, y |-> -1]

\* ------------------------------------------------------------ bounds

\* previewFilter calls that get past the adapter check (each draws one node id)
MaxJobs == 2

\* the stage position stays within MaxCoord pixels of the origin on each axis
MaxCoord == 2

\* the scale range: MIN_CANVAS_SCALE = CANVAS_SCALE_BY ^ -MaxScaleExp and
\* MAX_CANVAS_SCALE = CANVAS_SCALE_BY ^ MaxScaleExp
MaxScaleExp == 1

\* the largest number of layers kept in one entity list
MaxLayers == 2

\* ------------------------------------------- stage event handlers: world

\* cursor positions getScaledFlooredCursorPosition(stage) can return (NoPos: null)
Positions ==
  {[x |-> 10, y |-> 20], [x |-> 50, y |-> 80], [x |-> 53, y |-> 84], [x |-> 90, y |-> 80]}

\* getSelectedEntity(): nothing, or an entity with its type and origin
NoEntity == [id |-> Null, type |-> Null, x |-> 0, y |-> 0]
Entities ==
  {[id |-> "layer_1", type |-> "layer", x |-> 0, y |-> 0],
   [id |-> "rg_1", type |-> "regional_guidance", x |-> 10, y |-> 20],
   [id |-> "raster_1", type |-> "raster_layer", x |-> 0, y |-> 0]}

\* the constants of ./constants: the spacing scale in percent (0.1), and the
\* spacing limits in pixels
BRUSH_SPACING_TARGET_SCALE == 10
MIN_BRUSH_SPACING_PX == 5
MAX_BRUSH_SPACING_PX == 15

\* ------------------------------------------------------ filter: world

\* this.id of the module under study, and the origin of somebody else's batch
ThisId == "entity_filter_preview:this"
OtherId == "other:origin"
Origins == {ThisId, OtherId}

\* entity identifiers handed to initialize
EntityRefs == {"raster_1", "control_1", "rg_1", "missing_1"}

EntityTypeOf(ref) ==
  CASE ref = "raster_1" -> "raster_layer"
    [] ref = "control_1" -> "control_layer"
    [] ref = "rg_1" -> "regional_guidance"
    [] OTHER -> Null

\* this.manager.stateApi.getEntity(entityIdentifier): the entity or nothing
Absent == [type |-> Null, adapter |-> Null]
GetEntity(ref) ==
  IF EntityTypeOf(ref) = Null
    THEN Absent
    ELSE [type |-> EntityTypeOf(ref), adapter |-> ref]

\* the adapters initialize can bind
Adapters == {"raster_1", "control_1"}

\* image names a completion event can carry
Images == {"img_wide"}
ImageWidth(img) == IF img = "img_wide" THEN 4 ELSE 3
ImageHeight(img) == IF img = "img_wide" THEN 2 ELSE 3

NodeIds == 1..MaxJobs

\* the argument of rasterizeEntity: before any call, and as applyFilter builds it
NoRasterize ==
  [entity |-> Null, image |-> Null, x |-> 0, y |-> 0, width |-> 0, height |-> 0,
   replaceObjects |-> FALSE]

\* adapter.transformer.getRelativeRect(): x and y in units of 1/RectUnit pixel
RectUnit == 10
RelativeRect(a) ==
  IF a = "raster_1" THEN [x |-> 15, y |-> -25] ELSE [x |-> 4, y |-> -26]

\* Math.round of a number given in units of 1/RectUnit: to the nearest integer,
\* a half upwards
Round(t) == (2 * t + RectUnit) \div (2 * RectUnit)

\* event.result: an image output naming an image, or something else
Results == Images \cup {"non_image"}

VARIABLES
  adapter,           \* $adapter: Null or the bound adapter
  isProcessing,      \* $isProcessing
  imageState,        \* this.imageState: Null or the pending buffer's image
  buffer,            \* adapter.renderer's buffer, per adapter
  objectsVisible,    \* adapter.renderer's object visibility, per adapter
  rasterizing,       \* previewFilter calls suspended in `await rasterize`, per captured adapter
  nextNode,          \* the next node id getPrefixedId('filter_node') hands out
  listeners,         \* the 'invocation_complete' listeners registered on the socket
  enqueued,          \* node ids of the batches handed to enqueueBatch
  tasks,             \* listener invocations suspended at an await
  handled,           \* per node id: how often the listener got past its match check
  rasterizeCalls,    \* number of stateApi.rasterizeEntity calls
  rasterizeArg,      \* the argument of the latest stateApi.rasterizeEntity call
  commitBufferCalls, \* number of renderer.commitBuffer calls
  previewCalled,     \* previewFilter has been called at least once
  last,              \* the last step taken and how it ended
  \* --- stage event handlers
  tool,              \* toolState.selected
  toolBuffer,        \* toolState.selectedBuffer
  spaceKey,          \* getSpaceKey()
  isDrawing,         \* getIsDrawing()
  lastMouseDownPos,  \* getLastMouseDownPos()
  isMouseDown,       \* getIsMouseDown()
  lastCursorPos,     \* getLastCursorPos()
  lastAddedPoint,    \* getLastAddedPoint()
  linesSincePress,   \* ids of the entities a line was added to since the latest press
  handlers,          \* the events whose handler is bound on the stage or the window
  \* --- raster layer reducers
  rasterLayers,      \* state.rasterLayers.entities, as the list of the layers' ids
  controlLayers,     \* state.controlLayers.entities, as the list of the layers' ids
  selectedEntityIdentifier, \* state.selectedEntityIdentifier
  selectedEntity,    \* getSelectedEntity()
  isStaging,         \* session.isStaging
  isTransforming,    \* tool.isTransforming
  brushWidth,        \* toolState.brush.width
  eraserWidth,       \* toolState.eraser.width
  invertScroll,      \* toolState.invertScroll
  stagePos,          \* stage.x(), stage.y(), in units of 1/SubPixels pixel
  stageScale         \* stage.scaleX() = stage.scaleY(), as the exponent of CANVAS_SCALE_BY

filterVars ==
  <<adapter, isProcessing, imageState, buffer, objectsVisible, rasterizing,
    nextNode, listeners, enqueued, tasks, handled, rasterizeCalls, rasterizeArg,
    commitBufferCalls, previewCalled>>

toolVars == <<tool, toolBuffer, spaceKey>>
pointerVars == <<isDrawing, lastMouseDownPos, isMouseDown, lastCursorPos, lastAddedPoint>>
storeVars == <<selectedEntity, isStaging, isTransforming, brushWidth, eraserWidth, invertScroll>>
viewVars == <<stagePos, stageScale>>

strokeVars == <<linesSincePress>>

bindingVars == <<handlers>>

stageVars == <<toolVars, pointerVars, strokeVars, storeVars, viewVars, bindingVars>>

layerVars == <<rasterLayers, controlLayers, selectedEntityIdentifier>>

vars == <<filterVars, stageVars, layerVars, last>>

\* state.selectedEntityIdentifier when nothing is selected
NoIdentifier == [type |-> Null, id |-> Null]

\* the events setStageEventHandlers binds a handler to: stage.on(...) and
\* window.addEventListener(...)
StageEvents ==
  {"mouseenter", "mousedown", "mouseup", "mousemove", "mouseleave", "wheel",
   "dragmove", "dragend"}
WindowEvents == {"keydown", "keyup"}

\* a callback invocation: the callback, the entity it names, and the numbers of
\* its argument (a line's points, a point, a rect, a width, a viewport)
NoCall == [cb |-> "none", id |-> Null, type |-> Null, args |-> <<>>]

\* The record kept in `last`: the operation, its entity or key argument, an
\* event's origin and node id, whether the step threw, and the branch it took.
\* For a matched event: whether it came straight after cancelFilter, and whether
\* its node id was no longer the latest submitted one. For a stage handler: the
\* callback it invoked, a wheel event's deltaY, and for Escape whether an anchor
\* was recorded when it was pressed.
Step(op, ent, origin, node, raised, note) ==
  [op |-> op, ent |-> ent, origin |-> origin, node |-> node,
   raised |-> raised, note |-> note, afterCancel |-> FALSE, stale |-> FALSE,
   emitted |-> NoCall, delta |-> 0, aborted |-> FALSE]

MatchedStep(origin, node, raised) ==
  [Step("event", Null, origin, node, raised, "matched") EXCEPT
     !.afterCancel = (last.op = "cancelFilter"),
     !.stale = (node # nextNode - 1)]

FilterStep(op, ent, node, raised, note) == Step(op, ent, Null, node, raised, note)

Init ==
  /\ adapter = Null
  /\ isProcessing = FALSE
  /\ imageState = Null
  /\ buffer = [a \in Adapters |-> Null]
  /\ objectsVisible = [a \in Adapters |-> TRUE]
  /\ rasterizing = [a \in Adapters |-> 0]
  /\ nextNode = 1
  /\ listeners = {}
  /\ enqueued = {}
  /\ tasks = {}
  /\ handled = [n \in NodeIds |-> 0]
  /\ rasterizeCalls = 0
  /\ rasterizeArg = NoRasterize
  /\ commitBufferCalls = 0
  /\ previewCalled = FALSE
  /\ last = FilterStep("constructor", Null, 0, FALSE, "ok")
  /\ tool = "move"
  /\ toolBuffer = Null
  /\ spaceKey = FALSE
  /\ isDrawing = FALSE
  /\ lastMouseDownPos = NoPos
  /\ isMouseDown = FALSE
  /\ lastCursorPos = NoPos
  /\ lastAddedPoint = NoPos
  /\ linesSincePress = {}
  /\ handlers = StageEvents \cup WindowEvents
  /\ rasterLayers = <<>>
  /\ controlLayers = <<>>
  /\ selectedEntityIdentifier = NoIdentifier
  /\ selectedEntity = NoEntity
  /\ isStaging = FALSE
  /\ isTransforming = FALSE
  /\ brushWidth = 50
  /\ eraserWidth = 100
  /\ invertScroll = FALSE
  /\ stagePos = [x |-> 0, y |-> 0]
  /\ stageScale = 0

\* ------------------------------------------- filter: the adapter's renderer

ClearBuffer(buf, a) == [buf EXCEPT ![a] = Null]
SetBuffer(buf, a, img) == [buf EXCEPT ![a] = img]
CommitBuffer(buf, a) == [buf EXCEPT ![a] = Null]
ShowObjects(vis, a) == [vis EXCEPT ![a] = TRUE]
HideObjects(vis, a) == [vis EXCEPT ![a] = FALSE]

\* ------------------------------------------------ filter: the operations

\* the entity types initialize accepts
IsFilterable_AnyLayer(entity) == entity.type # Null
IsFilterable(entity) == entity.type = "raster_layer" \/ entity.type = "control_layer"

\* initialize(entityIdentifier)
Initialize(ref) ==
  LET entity == GetEntity(ref) IN
  /\ IF entity = Absent
       THEN /\ last' = FilterStep("initialize", ref, 0, FALSE, "warn_no_entity")
            /\ UNCHANGED adapter
       ELSE IF ~IsFilterable(entity)
         THEN /\ last' = FilterStep("initialize", ref, 0, FALSE, "warn_unsupported")
              /\ UNCHANGED adapter
         ELSE /\ adapter' = entity.adapter
              /\ last' = FilterStep("initialize", ref, 0, FALSE, "ok")
  /\ UNCHANGED <<isProcessing, imageState, buffer, objectsVisible, rasterizing,
                 nextNode, listeners, enqueued, tasks, handled, rasterizeCalls, rasterizeArg,
                 commitBufferCalls, previewCalled>>
  /\ UNCHANGED stageVars
  /\ UNCHANGED layerVars

\* previewFilter(), up to `await adapter.renderer.rasterize({ rect })`
PreviewFilter ==
  /\ previewCalled' = TRUE
  /\ IF adapter = Null
       THEN /\ last' = FilterStep("previewFilter", Null, 0, FALSE, "warn_no_adapter")
            /\ UNCHANGED rasterizing
       ELSE /\ nextNode + rasterizing["raster_1"] + rasterizing["control_1"] <= MaxJobs
            /\ rasterizing' = [rasterizing EXCEPT ![adapter] = @ + 1]
            /\ last' = FilterStep("previewFilter", Null, 0, FALSE, "rasterize")
  /\ UNCHANGED <<adapter, isProcessing, imageState, buffer, objectsVisible,
                 nextNode, listeners, enqueued, tasks, handled, rasterizeCalls, rasterizeArg,
                 commitBufferCalls>>
  /\ UNCHANGED stageVars
  /\ UNCHANGED layerVars

\* this.manager.socket.on('invocation_complete', listener): the listener closes
\* over the node id of the job and the adapter the call read
ListenersAfterSubmit_Unregistered(a) == listeners
ListenersAfterSubmit(a) == listeners \cup {[node |-> nextNode, adapter |-> a]}

\* previewFilter(), from the return of rasterize to the end: the listener is
\* registered, isProcessing set and the batch enqueued, with no await in
\* between. `a` is the adapter the call read before it suspended.
PreviewSubmit(a) ==
  /\ rasterizing[a] > 0
  /\ rasterizing' = [rasterizing EXCEPT ![a] = @ - 1]
  /\ listeners' = ListenersAfterSubmit(a)
  /\ isProcessing' = TRUE
  /\ enqueued' = enqueued \cup {nextNode}
  /\ nextNode' = nextNode + 1
  /\ last' = FilterStep("previewSubmit", Null, 0, FALSE, "ok")
  /\ UNCHANGED <<adapter, imageState, buffer, objectsVisible, tasks, handled,
                 rasterizeCalls, rasterizeArg, commitBufferCalls, previewCalled>>
  /\ UNCHANGED stageVars
  /\ UNCHANGED layerVars

\* the node id of the most recently submitted preview job (0: none yet)
LatestNode == nextNode - 1

\* this.manager.socket.off('invocation_complete', listener), for the listeners
\* that got past the match check
ListenersAfterMatch_Kept(matching) == listeners
ListenersAfterMatch(matching) == listeners \ matching

\* The socket emits 'invocation_complete': every registered listener runs up to
\* its first await. A listener whose (origin, node id) matches unregisters itself,
\* then asserts that the result is an image output and calls getImageDTO.
CompletionEvent(origin, src, res) ==
  LET matching == {l \in listeners : origin = ThisId /\ src = l.node} IN
  /\ origin = ThisId => src \in enqueued
  /\ IF matching = {}
       THEN /\ last' = Step("event", Null, origin, IF origin = ThisId THEN src ELSE 0,
                              FALSE, "ignored")
            /\ UNCHANGED <<listeners, tasks, handled>>
       ELSE /\ listeners' = ListenersAfterMatch(matching)
            /\ handled' = [handled EXCEPT ![src] = @ + Cardinality(matching)]
            /\ IF res = "non_image"
                 THEN /\ last' = MatchedStep(origin, src, TRUE)
                      /\ UNCHANGED tasks
                 ELSE /\ tasks' = tasks \cup
                           {[node |-> l.node, adapter |-> l.adapter, img |-> res,
                             pc |-> "getImageDTO"] : l \in matching}
                      /\ last' = MatchedStep(origin, src, FALSE)
  /\ UNCHANGED <<adapter, isProcessing, imageState, buffer, objectsVisible,
                 rasterizing, nextNode, enqueued, rasterizeCalls, rasterizeArg,
                 commitBufferCalls, previewCalled>>
  /\ UNCHANGED stageVars
  /\ UNCHANGED layerVars

\* The listener resumes from `await getImageDTO(...)`: with nothing the assert
\* throws; with a DTO it stores the image, clears the buffer and calls setBuffer.
ListenerImageDTO(t, found) ==
  /\ t \in tasks
  /\ t.pc = "getImageDTO"
  /\ IF ~found
       THEN /\ tasks' = tasks \ {t}
            /\ last' = FilterStep("listenerImageDTO", Null, t.node, TRUE, "no_dto")
            /\ UNCHANGED <<imageState, buffer>>
       ELSE /\ imageState' = t.img
            /\ buffer' = SetBuffer(ClearBuffer(buffer, t.adapter), t.adapter, t.img)
            /\ tasks' = (tasks \ {t}) \cup {[t EXCEPT !.pc = "setBuffer"]}
            /\ last' = FilterStep("listenerImageDTO", Null, t.node, FALSE, "ok")
  /\ UNCHANGED <<adapter, isProcessing, objectsVisible, rasterizing, nextNode,
                 listeners, enqueued, handled, rasterizeCalls, rasterizeArg, commitBufferCalls,
                 previewCalled>>
  /\ UNCHANGED stageVars
  /\ UNCHANGED layerVars

\* The listener resumes from `await adapter.renderer.setBuffer(...)`
ListenerSetBufferDone_Commits(t) ==
  /\ t \in tasks
  /\ t.pc = "setBuffer"
  /\ buffer' = CommitBuffer(buffer, t.adapter)
  /\ commitBufferCalls' = commitBufferCalls + 1
  /\ isProcessing' = FALSE
  /\ tasks' = tasks \ {t}
  /\ last' = FilterStep("listenerSetBufferDone", Null, t.node, FALSE, "ok")
  /\ UNCHANGED <<adapter, imageState, objectsVisible, rasterizing, nextNode, listeners,
                 enqueued, handled, rasterizeCalls, rasterizeArg, previewCalled>>
  /\ UNCHANGED stageVars
  /\ UNCHANGED layerVars
ListenerSetBufferDone(t) ==
  /\ t \in tasks
  /\ t.pc = "setBuffer"
  /\ objectsVisible' = HideObjects(objectsVisible, t.adapter)
  /\ isProcessing' = FALSE
  /\ tasks' = tasks \ {t}
  /\ last' = FilterStep("listenerSetBufferDone", Null, t.node, FALSE, "ok")
  /\ UNCHANGED <<adapter, imageState, buffer, rasterizing, nextNode, listeners,
                 enqueued, handled, rasterizeCalls, rasterizeArg, commitBufferCalls,
                 previewCalled>>
  /\ UNCHANGED stageVars
  /\ UNCHANGED layerVars

\* applyFilter's first precondition check: `if (!imageState)`
NoImageState_Unchecked == FALSE
NoImageState == imageState = Null

\* applyFilter's `this.imageState = null` after the commit
AppliedImageState_Kept == imageState
AppliedImageState == Null

\* applyFilter()
ApplyFilter ==
  /\ IF NoImageState
       THEN /\ last' = FilterStep("applyFilter", Null, 0, FALSE, "warn_no_image")
            /\ UNCHANGED <<adapter, imageState, buffer, objectsVisible,
                           rasterizeCalls, rasterizeArg, commitBufferCalls>>
       ELSE IF adapter = Null
         THEN /\ last' = FilterStep("applyFilter", Null, 0, FALSE, "warn_no_adapter")
              /\ UNCHANGED <<adapter, imageState, buffer, objectsVisible,
                             rasterizeCalls, rasterizeArg, commitBufferCalls>>
         ELSE /\ buffer' = CommitBuffer(buffer, adapter)
              /\ commitBufferCalls' = commitBufferCalls + 1
              /\ rasterizeCalls' = rasterizeCalls + 1
              /\ rasterizeArg' =
                   [entity |-> adapter, image |-> imageState,
                    x |-> Round(RelativeRect(adapter).x),
                    y |-> Round(RelativeRect(adapter).y),
                    width |-> ImageHeight(imageState),
                    height |-> ImageWidth(imageState),
                    replaceObjects |-> TRUE]
              /\ objectsVisible' = ShowObjects(objectsVisible, adapter)
              /\ imageState' = AppliedImageState
              /\ adapter' = Null
              /\ last' = FilterStep("applyFilter", Null, 0, FALSE, "applied")
  /\ UNCHANGED <<isProcessing, rasterizing, nextNode, listeners, enqueued, tasks,
                 handled, previewCalled>>
  /\ UNCHANGED stageVars
  /\ UNCHANGED layerVars

CancelFilter_KeepsAdapter ==
  /\ IF adapter # Null
       THEN /\ buffer' = ClearBuffer(buffer, adapter)
            /\ objectsVisible' = ShowObjects(objectsVisible, adapter)
       ELSE UNCHANGED <<buffer, objectsVisible>>
  /\ UNCHANGED adapter
  /\ imageState' = Null
  /\ isProcessing' = FALSE
  /\ last' = FilterStep("cancelFilter", adapter, 0, FALSE, "ok")
  /\ UNCHANGED <<rasterizing, nextNode, listeners, enqueued, tasks, handled,
                 rasterizeCalls, rasterizeArg, commitBufferCalls, previewCalled>>
  /\ UNCHANGED stageVars
  /\ UNCHANGED layerVars

\* cancelFilter()
CancelFilter ==
  /\ IF adapter # Null
       THEN /\ buffer' = ClearBuffer(buffer, adapter)
            /\ objectsVisible' = ShowObjects(objectsVisible, adapter)
            /\ adapter' = Null
       ELSE UNCHANGED <<buffer, objectsVisible, adapter>>
  /\ imageState' = Null
  /\ isProcessing' = FALSE
  /\ last' = FilterStep("cancelFilter", adapter, 0, FALSE, "ok")
  /\ UNCHANGED <<rasterizing, nextNode, listeners, enqueued, tasks, handled,
                 rasterizeCalls, rasterizeArg, commitBufferCalls, previewCalled>>
  /\ UNCHANGED stageVars
  /\ UNCHANGED layerVars

\* destroy()
Destroy ==
  /\ last' = FilterStep("destroy", Null, 0, FALSE, "ok")
  /\ UNCHANGED bindingVars
  /\ UNCHANGED filterVars
  /\ UNCHANGED stageVars
  /\ UNCHANGED layerVars

NextFilter ==
  \/ \E ref \in EntityRefs : Initialize(ref)
  \/ PreviewFilter
  \/ \E a \in Adapters : PreviewSubmit(a)
  \/ \E origin \in Origins, src \in NodeIds, res \in Results :
       CompletionEvent(origin, src, res)
  \/ \E t \in tasks, found \in BOOLEAN : ListenerImageDTO(t, found)
  \/ \E t \in tasks : ListenerSetBufferDone(t)
  \/ ApplyFilter
  \/ CancelFilter
  \/ Destroy

SpecFilter == Init /\ [][NextFilter]_vars

\* ------------------------------------------- stage event handlers: keys

Tools == {"move", "view", "brush", "eraser", "rect"}

\* e.key of a key event: Escape, space, r, and any other key
Keys == {"Escape", " ", "r", "x"}

KeyStep(op, key, note) == Step(op, key, Null, 0, FALSE, note)

\* toolChanged(tool): an explicit tool selection
ToolChanged(t) ==
  /\ tool' = t
  /\ last' = KeyStep("toolChanged", t, "ok")
  /\ UNCHANGED <<toolBuffer, spaceKey, pointerVars, strokeVars, storeVars, viewVars>>
  /\ UNCHANGED bindingVars
  /\ UNCHANGED filterVars
  /\ UNCHANGED layerVars

\* the anchor Escape leaves: setLastMouseDownPos(null)
EscapeAnchor_Kept == lastMouseDownPos
EscapeAnchor == NoPos

\* onKeyDown(e); `inText`: e.target is an input or a textarea
KeyDown(key, repeat, inText) ==
  /\ "keydown" \in handlers
  /\ IF repeat
       THEN /\ last' = KeyStep("keydown", key, "repeat")
            /\ UNCHANGED <<toolVars, pointerVars, strokeVars>>
       ELSE IF inText
         THEN /\ last' = KeyStep("keydown", key, "in_text_field")
              /\ UNCHANGED <<toolVars, pointerVars, strokeVars>>
         ELSE /\ last' = [KeyStep("keydown", key, "handled") EXCEPT
                             !.aborted = (key = "Escape" /\ lastMouseDownPos # NoPos)]
              /\ IF key = "Escape"
                   THEN /\ isDrawing' = FALSE
                        /\ lastMouseDownPos' = EscapeAnchor
                        /\ UNCHANGED <<toolVars, isMouseDown, lastCursorPos, lastAddedPoint, strokeVars>>
                   ELSE IF key = " "
                     THEN /\ toolBuffer' = tool
                          /\ tool' = "view"
                          /\ spaceKey' = TRUE
                          /\ UNCHANGED <<pointerVars, strokeVars>>
                     ELSE UNCHANGED <<toolVars, pointerVars, strokeVars>>
  /\ UNCHANGED <<storeVars, viewVars>>
  /\ UNCHANGED bindingVars
  /\ UNCHANGED filterVars
  /\ UNCHANGED layerVars

\* the tool onKeyUp selects on space: `toolBuffer ?? 'move'`
RestoredTool_AlwaysMove == "move"
RestoredTool == IF toolBuffer = Null THEN "move" ELSE toolBuffer

\* onKeyUp(e)
KeyUp(key, repeat, inText) ==
  /\ "keyup" \in handlers
  /\ IF repeat
       THEN /\ last' = KeyStep("keyup", key, "repeat")
            /\ UNCHANGED <<toolVars, pointerVars, strokeVars>>
       ELSE IF inText
         THEN /\ last' = KeyStep("keyup", key, "in_text_field")
              /\ UNCHANGED <<toolVars, pointerVars, strokeVars>>
         ELSE /\ last' = KeyStep("keyup", key, "handled")
              /\ IF key = " "
                   THEN /\ tool' = RestoredTool
                        /\ toolBuffer' = Null
                        /\ spaceKey' = FALSE
                        /\ UNCHANGED <<pointerVars, strokeVars>>
                   ELSE UNCHANGED <<toolVars, pointerVars, strokeVars>>
  /\ UNCHANGED <<storeVars, viewVars>>
  /\ UNCHANGED bindingVars
  /\ UNCHANGED filterVars
  /\ UNCHANGED layerVars

\* ------------------------------------------- stage event handlers: pointer

PointerStep(op, note, call) ==
  [Step(op, Null, Null, 0, FALSE, note) EXCEPT !.emitted = call]

Call(cb, entity, args) ==
  [cb |-> cb, id |-> entity.id, type |-> entity.type, args |-> args]

\* the entity types the pointer handlers draw on
IsDrawable(entity) == entity.type = "regional_guidance" \/ entity.type = "layer"

DrawingTools == {"brush", "eraser"}

\* updateLastCursorPos(stage, setLastCursorPos): what getLastCursorPos() returns
\* afterwards, `pos` being the position the stage resolved
UpdateLastCursorPos(pos) == IF pos = NoPos THEN lastCursorPos ELSE pos

LineCallback(t) == IF t = "brush" THEN "onBrushLineAdded" ELSE "onEraserLineAdded"

\* a position relative to the entity's origin
EntityLocal(entity, pos) == <<pos.x - entity.x, pos.y - entity.y>>

\* the points of a new line: from `from` to `pos`
LinePoints(entity, from, pos) == EntityLocal(entity, from) \o EntityLocal(entity, pos)

\* the branch a pointer handler notes when its condition is not met: the stage
\* resolved no position, or another conjunct failed
Unmet(pos) == IF pos = NoPos THEN "no_position" ELSE "no_interaction"

\* history of the stroke: the entities a line-added callback named since the
\* latest press, after the handler step `step`
LineCallbacks == {"onBrushLineAdded", "onEraserLineAdded"}
LinesAfter(step) ==
  LET added == IF step.emitted.cb \in LineCallbacks THEN {step.emitted.id} ELSE {}
  IN IF step.op = "mousedown" THEN added ELSE linesSincePress \cup added

\* stage.on('mousedown'); `pos`: the cursor position the stage resolves
OnMouseDown(pos, shiftKey) ==
  /\ "mousedown" \in handlers
  /\ isMouseDown' = TRUE
  /\ lastCursorPos' = UpdateLastCursorPos(pos)
  /\ IF pos # NoPos /\ IsDrawable(selectedEntity) /\ ~spaceKey
       THEN /\ isDrawing' = TRUE
            /\ lastMouseDownPos' = pos
            /\ IF tool \in DrawingTools
                 THEN /\ lastAddedPoint' = pos
                      /\ last' =
                           IF shiftKey
                             THEN IF lastAddedPoint # NoPos
                                    THEN PointerStep("mousedown", "straight_line",
                                           Call(LineCallback(tool), selectedEntity,
                                                LinePoints(selectedEntity, lastAddedPoint, pos)))
                                    ELSE PointerStep("mousedown", "shift_no_point", NoCall)
                             ELSE PointerStep("mousedown", "new_line",
                                    Call(LineCallback(tool), selectedEntity,
                                         LinePoints(selectedEntity, pos, pos)))
                 ELSE /\ UNCHANGED lastAddedPoint
                      /\ last' = PointerStep("mousedown", "anchor", NoCall)
       ELSE /\ UNCHANGED <<isDrawing, lastMouseDownPos, lastAddedPoint>>
            /\ last' = PointerStep("mousedown", Unmet(pos), NoCall)
  /\ UNCHANGED <<toolVars, storeVars, viewVars>>
  /\ UNCHANGED bindingVars
  /\ UNCHANGED filterVars
  /\ UNCHANGED layerVars

\* the mousedown handler, the stroke's history not kept
MouseDown(pos, shiftKey) == OnMouseDown(pos, shiftKey) /\ UNCHANGED strokeVars

\* the mousedown handler, the stroke's history kept
TrackedMouseDown(pos, shiftKey) ==
  /\ OnMouseDown(pos, shiftKey)
  /\ linesSincePress' = LinesAfter(last')

Min(a, b) == IF a < b THEN a ELSE b
Abs(a) == IF a < 0 THEN -a ELSE a
Clamp(v, lo, hi) == IF v < lo THEN lo ELSE IF v > hi THEN hi ELSE v

\* the rect's x (or y): Math.min of the two entity-local coordinates
RectOrigin_Release(a, b) == a
RectOrigin(a, b) == Min(a, b)

\* the rect's width (or height): Math.abs of the difference
RectExtent_Signed(a, b) == b - a
RectExtent(a, b) == Abs(a - b)

\* the rect mouseup hands to onRectShapeAdded: <<x, y, width, height>>
RectOf(entity, pos, down) ==
  <<RectOrigin(pos.x - entity.x, down.x - entity.x),
    RectOrigin(pos.y - entity.y, down.y - entity.y),
    RectExtent(pos.x, down.x),
    RectExtent(pos.y, down.y)>>

\* stage.on('mouseup'): the release point is getLastCursorPos()
MouseUp ==
  /\ "mouseup" \in handlers
  /\ isMouseDown' = FALSE
  /\ IF lastCursorPos # NoPos /\ IsDrawable(selectedEntity) /\ ~spaceKey
       THEN /\ isDrawing' = FALSE
            /\ lastMouseDownPos' = NoPos
            /\ last' =
                 IF tool = "rect"
                   THEN IF lastMouseDownPos # NoPos
                          THEN PointerStep("mouseup", "rect",
                                 Call("onRectShapeAdded", selectedEntity,
                                      RectOf(selectedEntity, lastCursorPos, lastMouseDownPos)))
                          ELSE PointerStep("mouseup", "rect_no_anchor", NoCall)
                   ELSE PointerStep("mouseup", "released", NoCall)
       ELSE /\ UNCHANGED <<isDrawing, lastMouseDownPos>>
            /\ last' = PointerStep("mouseup", "no_interaction", NoCall)
  /\ UNCHANGED <<lastCursorPos, lastAddedPoint, strokeVars>>
  /\ UNCHANGED <<toolVars, storeVars, viewVars>>
  /\ UNCHANGED bindingVars
  /\ UNCHANGED filterVars
  /\ UNCHANGED layerVars

\* minSpacingPx of maybeAddNextPoint, in hundredths of a pixel
MinSpacingPx ==
  Clamp((IF tool = "brush" THEN brushWidth ELSE eraserWidth) * BRUSH_SPACING_TARGET_SCALE,
        MIN_BRUSH_SPACING_PX * 100, MAX_BRUSH_SPACING_PX * 100)

\* Math.hypot(a.x - b.x, a.y - b.y) < spacing, spacing in hundredths of a pixel
Closer(a, b, spacing) ==
  10000 * ((a.x - b.x) * (a.x - b.x) + (a.y - b.y) * (a.y - b.y)) < spacing * spacing

\* maybeAddNextPoint: whether it adds currentPos to the line
AddsNextPoint_Always(currentPos) == TRUE
AddsNextPoint(currentPos) ==
  lastAddedPoint = NoPos \/ ~Closer(lastAddedPoint, currentPos, MinSpacingPx)

\* stage.on('mousemove')
OnMouseMove(pos) ==
  /\ "mousemove" \in handlers
  /\ lastCursorPos' = UpdateLastCursorPos(pos)
  /\ IF /\ pos # NoPos /\ IsDrawable(selectedEntity) /\ ~spaceKey /\ isMouseDown
        /\ tool \in DrawingTools
       THEN IF isDrawing
              THEN /\ UNCHANGED isDrawing
                   /\ IF AddsNextPoint(pos)
                        THEN /\ lastAddedPoint' = pos
                             /\ last' = PointerStep("mousemove", "point",
                                          Call("onPointAddedToLine", selectedEntity,
                                               EntityLocal(selectedEntity, pos)))
                        ELSE /\ UNCHANGED lastAddedPoint
                             /\ last' = PointerStep("mousemove", "too_close", NoCall)
              ELSE /\ isDrawing' = TRUE
                   /\ lastAddedPoint' = pos
                   /\ last' = PointerStep("mousemove", "new_line",
                                Call(LineCallback(tool), selectedEntity,
                                     LinePoints(selectedEntity, pos, pos)))
       ELSE /\ UNCHANGED <<isDrawing, lastAddedPoint>>
            /\ last' = PointerStep("mousemove", Unmet(pos), NoCall)
  /\ UNCHANGED <<lastMouseDownPos, isMouseDown>>
  /\ UNCHANGED <<toolVars, storeVars, viewVars>>
  /\ UNCHANGED bindingVars
  /\ UNCHANGED filterVars
  /\ UNCHANGED layerVars

\* the mousemove handler, the stroke's history not kept
MouseMove(pos) == OnMouseMove(pos) /\ UNCHANGED strokeVars

\* the mousemove handler, the stroke's history kept
TrackedMouseMove(pos) ==
  /\ OnMouseMove(pos)
  /\ linesSincePress' = LinesAfter(last')

\* stage.on('mouseleave')
MouseLeave(pos) ==
  /\ "mouseleave" \in handlers
  /\ isDrawing' = FALSE
  /\ lastCursorPos' = NoPos
  /\ lastMouseDownPos' = NoPos
  /\ last' =
       IF /\ pos # NoPos /\ IsDrawable(selectedEntity) /\ ~spaceKey /\ isMouseDown
          /\ tool \in DrawingTools
         THEN PointerStep("mouseleave", "point",
                Call("onPointAddedToLine", selectedEntity, <<pos.x, pos.y>>))
         ELSE PointerStep("mouseleave", Unmet(pos), NoCall)
  /\ UNCHANGED <<isMouseDown, lastAddedPoint, strokeVars>>
  /\ UNCHANGED <<toolVars, storeVars, viewVars>>
  /\ UNCHANGED bindingVars
  /\ UNCHANGED filterVars
  /\ UNCHANGED layerVars

\* stage.on('mouseenter'): renders the tool preview only
MouseEnter ==
  /\ "mouseenter" \in handlers
  /\ last' = PointerStep("mouseenter", "render", NoCall)
  /\ UNCHANGED stageVars
  /\ UNCHANGED filterVars
  /\ UNCHANGED layerVars

\* the store selects another entity, or none
EntitySelected(entity) ==
  /\ selectedEntity' = entity
  /\ last' = Step("entitySelected", entity.id, Null, 0, FALSE, "ok")
  /\ UNCHANGED <<isStaging, isTransforming, brushWidth, eraserWidth, invertScroll>>
  /\ UNCHANGED <<toolVars, pointerVars, strokeVars, viewVars>>
  /\ UNCHANGED bindingVars
  /\ UNCHANGED filterVars
  /\ UNCHANGED layerVars

NextStage ==
  \/ \E t \in Tools : ToolChanged(t)
  \/ \E key \in Keys, repeat \in BOOLEAN, inText \in BOOLEAN : KeyDown(key, repeat, inText)
  \/ \E key \in Keys, repeat \in BOOLEAN, inText \in BOOLEAN : KeyUp(key, repeat, inText)

SpecStage == Init /\ [][NextStage]_vars

\* the pointer handlers, with the tool and entity selections and the keys the
\* pointer handlers depend on: Escape (handled, or typed into a text field) and
\* the space override
NextPointer ==
  \/ \E pos \in Positions \cup {NoPos}, shiftKey \in BOOLEAN : MouseDown(pos, shiftKey)
  \/ MouseUp
  \/ \E pos \in Positions \cup {NoPos} : MouseMove(pos)
  \/ \E pos \in Positions \cup {NoPos} : MouseLeave(pos)
  \/ MouseEnter
  \/ \E entity \in Entities \cup {NoEntity} : EntitySelected(entity)
  \/ \E t \in Tools : ToolChanged(t)
  \/ \E inText \in BOOLEAN : KeyDown("Escape", FALSE, inText)
  \/ KeyDown(" ", FALSE, FALSE)
  \/ KeyUp(" ", FALSE, FALSE)

SpecPointer == Init /\ [][NextPointer]_vars

\* the pointer handlers with the stroke's history kept, and the tool and
\* entity selections
NextStroke ==
  \/ \E pos \in Positions \cup {NoPos}, shiftKey \in BOOLEAN : TrackedMouseDown(pos, shiftKey)
  \/ MouseUp
  \/ \E pos \in Positions \cup {NoPos} : TrackedMouseMove(pos)
  \/ \E pos \in Positions \cup {NoPos} : MouseLeave(pos)
  \/ \E entity \in Entities \cup {NoEntity} : EntitySelected(entity)
  \/ \E t \in Tools : ToolChanged(t)

SpecStroke == Init /\ [][NextStroke]_vars

\* session.isStaging changes in the store
StagingChanged(b) ==
  /\ isStaging' = b
  /\ last' = Step("stagingChanged", Null, Null, 0, FALSE, "ok")
  /\ UNCHANGED <<selectedEntity, isTransforming, brushWidth, eraserWidth, invertScroll>>
  /\ UNCHANGED <<toolVars, pointerVars, strokeVars, viewVars>>
  /\ UNCHANGED bindingVars
  /\ UNCHANGED filterVars
  /\ UNCHANGED layerVars

\* tool.isTransforming changes in the store
TransformingChanged(b) ==
  /\ isTransforming' = b
  /\ last' = Step("transformingChanged", Null, Null, 0, FALSE, "ok")
  /\ UNCHANGED <<selectedEntity, isStaging, brushWidth, eraserWidth, invertScroll>>
  /\ UNCHANGED <<toolVars, pointerVars, strokeVars, viewVars>>
  /\ UNCHANGED bindingVars
  /\ UNCHANGED filterVars
  /\ UNCHANGED layerVars

\* the pointer handlers while the store's staging and transforming flags change
NextModal ==
  \/ \E b \in BOOLEAN : StagingChanged(b)
  \/ \E b \in BOOLEAN : TransformingChanged(b)
  \/ \E pos \in Positions \cup {NoPos}, shiftKey \in BOOLEAN : MouseDown(pos, shiftKey)
  \/ MouseUp
  \/ \E pos \in Positions \cup {NoPos} : MouseMove(pos)
  \/ \E pos \in Positions \cup {NoPos} : MouseLeave(pos)
  \/ MouseEnter
  \/ \E entity \in Entities \cup {NoEntity} : EntitySelected(entity)
  \/ \E t \in Tools : ToolChanged(t)

SpecModal == Init /\ [][NextModal]_vars

\* ------------------------------------------- stage event handlers: viewport

\* CANVAS_SCALE_BY of ./constants, taken as 2 so that every scale is a power of
\* two and every position an exact multiple of 1/SubPixels pixel
CANVAS_SCALE_BY == 2

RECURSIVE Pow(_, _)
Pow(b, n) == IF n = 0 THEN 1 ELSE b * Pow(b, n - 1)

\* positions are kept in units of 1/SubPixels pixel: the finest fraction a
\* zoom from the largest to the smallest scale produces
SubPixels == Pow(CANVAS_SCALE_BY, 2 * MaxScaleExp)

MinScaleExp == 0 - MaxScaleExp
ScaleExps == MinScaleExp..MaxScaleExp

\* e.evt.deltaY of a wheel event
Deltas == {-2, -1, 0, 1, 2}

\* stage.getPointerPosition(): absolute pixels (NoPos: null)
CursorPoints == {[x |-> 0, y |-> 0], [x |-> 1, y |-> 2]}

\* the pixels Konva moves the stage by between two dragmove events
DragDeltas == {[x |-> 1, y |-> 0], [x |-> -1, y |-> 1], [x |-> 0, y |-> -1]}

InRange(pos) ==
  /\ Abs(pos.x) <= MaxCoord * SubPixels
  /\ Abs(pos.y) <= MaxCoord * SubPixels

\* Math.floor of a position to whole pixels, in sub-pixel units
FloorPx(u) == (u \div SubPixels) * SubPixels

ViewStep(op, note, delta, call) ==
  [Step(op, Null, Null, 0, FALSE, note) EXCEPT !.emitted = call, !.delta = delta]

\* setStageAttrs({x, y, width, height, scale}): x and y in sub-pixel units, the
\* scale as its exponent
StageAttrsCall(x, y, scale) ==
  [cb |-> "setStageAttrs", id |-> Null, type |-> Null, args |-> <<x, y, scale>>]

WidthCall(cb, size) == [cb |-> cb, id |-> Null, type |-> Null, args |-> <<size>>]

\* --- calculateNewBrushSize, in fixed point with FixedPoint units per pixel

FixedPoint == 10000
BrushCurveCoefficient == 7363
BrushCurveBase == 10394
BrushDeltaLimit == 20
MinBrushSize == 1
MaxBrushSize == 500

Sign(d) == IF d > 0 THEN 1 ELSE IF d < 0 THEN -1 ELSE 0

\* the growth from which the target delta exceeds the delta limit
GrowthCap == (BrushDeltaLimit * FixedPoint * FixedPoint) \div BrushCurveCoefficient

\* Math.pow(1.0394, brushSize) by repeated multiplication (`g` after the
\* factors taken so far, `n` factors to go), not computed beyond GrowthCap
RECURSIVE GrowthFrom(_, _)
GrowthFrom(g, n) ==
  IF n = 0 \/ g >= GrowthCap
    THEN g
    ELSE GrowthFrom(g + (g * (BrushCurveBase - FixedPoint)) \div FixedPoint, n - 1)

\* Math.pow(1.0394, brushSize) for every brush size, as a table
BrushGrowth == [brushSize \in MinBrushSize..MaxBrushSize |-> GrowthFrom(FixedPoint, brushSize)]

\* calculateNewBrushSize(brushSize, delta): brushSize in pixels, the result in
\* fixed point
CalculateNewBrushSize_Unbounded(brushSize, delta) ==
  LET targetDelta == Sign(delta) * ((BrushCurveCoefficient * BrushGrowth[brushSize]) \div FixedPoint)
      finalDelta == Clamp(targetDelta, 0 - BrushDeltaLimit * FixedPoint, BrushDeltaLimit * FixedPoint)
  IN brushSize * FixedPoint + finalDelta
CalculateNewBrushSize(brushSize, delta) ==
  LET targetDelta == Sign(delta) * ((BrushCurveCoefficient * BrushGrowth[brushSize]) \div FixedPoint)
      finalDelta == Clamp(targetDelta, 0 - BrushDeltaLimit * FixedPoint, BrushDeltaLimit * FixedPoint)
  IN Clamp(brushSize * FixedPoint + finalDelta, MinBrushSize * FixedPoint, MaxBrushSize * FixedPoint)

\* --- the wheel handler

\* the exponent of CANVAS_SCALE_BY in the zoom step: `CANVAS_SCALE_BY ** delta`
ZoomExponent(delta) == delta

\* clamp(stageScale * CANVAS_SCALE_BY ** delta, MIN_CANVAS_SCALE, MAX_CANVAS_SCALE)
NewScale_Unclamped(scale, delta) == scale + ZoomExponent(delta)
NewScale(scale, delta) == Clamp(scale + ZoomExponent(delta), MinScaleExp, MaxScaleExp)

\* u * CANVAS_SCALE_BY ^ k, for an integer k of either sign
Scaled(u, k) ==
  IF k >= 0 THEN u * Pow(CANVAS_SCALE_BY, k) ELSE u \div Pow(CANVAS_SCALE_BY, 0 - k)

\* cursorPos - ((cursorPos - stage position) / stageScale) * newScale, per axis
NewCoord_Unanchored(cursor, u, scale, newScale) == u
NewCoord(cursor, u, scale, newScale) ==
  cursor * SubPixels - Scaled(cursor * SubPixels - u, newScale - scale)

NewPos(cursor, scale, newScale) ==
  [x |-> NewCoord(cursor.x, stagePos.x, scale, newScale),
   y |-> NewCoord(cursor.y, stagePos.y, scale, newScale)]

\* stage.on('wheel'); `cursorPos`: stage.getPointerPosition()
Wheel(ctrlKey, metaKey, deltaY, cursorPos) ==
  /\ "wheel" \in handlers
  /\ IF ctrlKey \/ metaKey
       THEN LET delta == IF invertScroll THEN 0 - deltaY ELSE deltaY IN
            /\ last' =
                 IF tool = "brush"
                   THEN ViewStep("wheel", "brush_size", deltaY,
                          WidthCall("onBrushWidthChanged", CalculateNewBrushSize(brushWidth, delta)))
                   ELSE IF tool = "eraser"
                     THEN ViewStep("wheel", "eraser_size", deltaY,
                            WidthCall("onEraserWidthChanged", CalculateNewBrushSize(eraserWidth, delta)))
                     ELSE ViewStep("wheel", "no_size", deltaY, NoCall)
            /\ UNCHANGED viewVars
       ELSE IF cursorPos # NoPos
         THEN LET newScale == NewScale(stageScale, deltaY)
                  newPos == NewPos(cursorPos, stageScale, newScale)
              IN /\ InRange(newPos)
                 /\ stageScale' = newScale
                 /\ stagePos' = newPos
                 /\ last' = ViewStep("wheel", "zoom", deltaY,
                              StageAttrsCall(newPos.x, newPos.y, newScale))
         ELSE /\ last' = ViewStep("wheel", "no_cursor", deltaY, NoCall)
              /\ UNCHANGED viewVars
  /\ UNCHANGED <<toolVars, pointerVars, strokeVars, storeVars>>
  /\ UNCHANGED bindingVars
  /\ UNCHANGED filterVars
  /\ UNCHANGED layerVars

\* stage.on('dragmove'), Konva having moved the stage by `d` pixels
DragMove(d) ==
  LET pos == [x |-> stagePos.x + d.x * SubPixels, y |-> stagePos.y + d.y * SubPixels] IN
  /\ "dragmove" \in handlers
  /\ InRange(pos)
  /\ stagePos' = pos
  /\ last' = ViewStep("dragmove", "published", 0,
               StageAttrsCall(FloorPx(pos.x), FloorPx(pos.y), stageScale))
  /\ UNCHANGED stageScale
  /\ UNCHANGED <<toolVars, pointerVars, strokeVars, storeVars>>
  /\ UNCHANGED bindingVars
  /\ UNCHANGED filterVars
  /\ UNCHANGED layerVars

\* stage.on('dragend')
DragEnd ==
  /\ "dragend" \in handlers
  /\ last' = ViewStep("dragend", "published", 0,
               StageAttrsCall(FloorPx(stagePos.x), FloorPx(stagePos.y), stageScale))
  /\ UNCHANGED <<toolVars, pointerVars, strokeVars, storeVars, viewVars>>
  /\ UNCHANGED bindingVars
  /\ UNCHANGED filterVars
  /\ UNCHANGED layerVars

\* the invert-scroll setting changes in the store
InvertScrollChanged(b) ==
  /\ invertScroll' = b
  /\ last' = Step("invertScrollChanged", Null, Null, 0, FALSE, "ok")
  /\ UNCHANGED <<selectedEntity, isStaging, isTransforming, brushWidth, eraserWidth>>
  /\ UNCHANGED <<toolVars, pointerVars, strokeVars, viewVars>>
  /\ UNCHANGED bindingVars
  /\ UNCHANGED filterVars
  /\ UNCHANGED layerVars

\* the brush width changes in the store (toolState.brush.width)
BrushWidths == MinBrushSize..MaxBrushSize

BrushWidthChanged(w) ==
  /\ brushWidth' = w
  /\ last' = Step("brushWidthChanged", Null, Null, 0, FALSE, "ok")
  /\ UNCHANGED <<selectedEntity, isStaging, isTransforming, eraserWidth, invertScroll>>
  /\ UNCHANGED <<toolVars, pointerVars, strokeVars, viewVars>>
  /\ UNCHANGED bindingVars
  /\ UNCHANGED filterVars
  /\ UNCHANGED layerVars

NextView ==
  \/ \E ctrlKey \in BOOLEAN, metaKey \in BOOLEAN, deltaY \in Deltas,
        cursorPos \in CursorPoints \cup {NoPos} :
       Wheel(ctrlKey, metaKey, deltaY, cursorPos)
  \/ \E d \in DragDeltas : DragMove(d)
  \/ DragEnd
  \/ \E b \in BOOLEAN : InvertScrollChanged(b)
  \/ \E t \in Tools : ToolChanged(t)

SpecView == Init /\ [][NextView]_vars

\* the wheel handler with ctrl or meta held, over every brush width
NextBrush ==
  \/ \E ctrlKey \in BOOLEAN, metaKey \in BOOLEAN, deltaY \in Deltas :
       /\ ctrlKey \/ metaKey
       /\ Wheel(ctrlKey, metaKey, deltaY, NoPos)
  \/ \E w \in BrushWidths : BrushWidthChanged(w)
  \/ \E t \in Tools : ToolChanged(t)

SpecBrush == Init /\ [][NextBrush]_vars

\* ------------------------------------------- stage event handlers: cleanup

\* the events the cleanup function unbinds: stage.off('mousedown mouseup
\* mousemove mouseenter mouseleave wheel dragend') and the two
\* window.removeEventListener calls
Unbound ==
  {"mousedown", "mouseup", "mousemove", "mouseenter", "mouseleave", "wheel", "dragend"}
    \cup {"keydown", "keyup"}

\* the function setStageEventHandlers returns
Cleanup ==
  /\ handlers' = handlers \ Unbound
  /\ last' = Step("cleanup", Null, Null, 0, FALSE, "ok")
  /\ UNCHANGED <<toolVars, pointerVars, strokeVars, storeVars, viewVars>>
  /\ UNCHANGED filterVars
  /\ UNCHANGED layerVars

\* one pointer position, the wheel deltas and the keys of the events around a
\* cleanup
CleanupPos == [x |-> 10, y |-> 20]
CleanupDeltas == {-1, 1}
CleanupKeys == {"Escape", " "}

\* every event of the stage and the window, and the cleanup
NextCleanup ==
  \/ Cleanup
  \/ MouseEnter
  \/ MouseDown(CleanupPos, FALSE)
  \/ MouseUp
  \/ MouseMove(CleanupPos)
  \/ MouseLeave(CleanupPos)
  \/ \E ctrlKey \in BOOLEAN, deltaY \in CleanupDeltas, cursorPos \in CursorPoints :
       Wheel(ctrlKey, FALSE, deltaY, cursorPos)
  \/ \E d \in DragDeltas : DragMove(d)
  \/ DragEnd
  \/ \E key \in CleanupKeys : KeyDown(key, FALSE, FALSE)
  \/ \E key \in CleanupKeys : KeyUp(key, FALSE, FALSE)

SpecCleanup == Init /\ [][NextCleanup]_vars

\* ------------------------------------------------- raster layer reducers

\* ids of raster layers (getPrefixedId('raster_layer'), or those of recalled
\* layers) and of control layers (getPrefixedId('control_layer'))
RasterLayerIds == {"raster_layer:a", "raster_layer:b"}
ControlLayerIds == {"control_layer:a", "control_layer:b"}

\* the ids in an entity list
IdsOf(entities) == {entities[i] : i \in 1..Len(entities)}

\* selectRasterLayer(state, id): whether it finds a layer
HasRasterLayer(id) == id \in IdsOf(rasterLayers)

\* entities.filter((layer) => layer.id !== id)
RECURSIVE Without(_, _)
Without(entities, id) ==
  IF entities = <<>>
    THEN <<>>
    ELSE IF Head(entities) = id
      THEN Without(Tail(entities), id)
      ELSE <<Head(entities)>> \o Without(Tail(entities), id)

LayerStep(op, id, note) == Step(op, id, Null, 0, FALSE, note)

\* rasterLayerAdded({ id, isSelected })
RasterLayerAdded(id, isSelected) ==
  /\ Len(rasterLayers) < MaxLayers
  /\ rasterLayers' = Append(rasterLayers, id)
  /\ selectedEntityIdentifier' =
       IF isSelected THEN [type |-> "raster_layer", id |-> id] ELSE selectedEntityIdentifier
  /\ last' = LayerStep("rasterLayerAdded", id, IF isSelected THEN "selected" ELSE "added")
  /\ UNCHANGED controlLayers
  /\ UNCHANGED <<filterVars, stageVars>>

\* rasterLayerRecalled({ data }), `id` being data.id
RasterLayerRecalled(id) ==
  /\ Len(rasterLayers) < MaxLayers
  /\ rasterLayers' = Append(rasterLayers, id)
  /\ selectedEntityIdentifier' = [type |-> "raster_layer", id |-> id]
  /\ last' = LayerStep("rasterLayerRecalled", id, "selected")
  /\ UNCHANGED controlLayers
  /\ UNCHANGED <<filterVars, stageVars>>

\* rasterLayerAllDeleted()
RasterLayerAllDeleted ==
  /\ rasterLayers' = <<>>
  /\ last' = LayerStep("rasterLayerAllDeleted", Null, "ok")
  /\ UNCHANGED <<controlLayers, selectedEntityIdentifier>>
  /\ UNCHANGED <<filterVars, stageVars>>

\* rasterLayerConvertedToControlLayer({ id, newId })
RasterLayerConvertedToControlLayer(id, newId) ==
  /\ IF ~HasRasterLayer(id)
       THEN /\ last' = LayerStep("rasterLayerConvertedToControlLayer", id, "not_found")
            /\ UNCHANGED layerVars
       ELSE /\ Len(controlLayers) < MaxLayers
            /\ rasterLayers' = Without(rasterLayers, id)
            /\ controlLayers' = Append(controlLayers, newId)
            /\ selectedEntityIdentifier' = [type |-> "control_layer", id |-> newId]
            /\ last' = LayerStep("rasterLayerConvertedToControlLayer", id, "converted")
  /\ UNCHANGED <<filterVars, stageVars>>

NextLayers ==
  \/ \E id \in RasterLayerIds, isSelected \in BOOLEAN : RasterLayerAdded(id, isSelected)
  \/ \E id \in RasterLayerIds : RasterLayerRecalled(id)
  \/ RasterLayerAllDeleted
  \/ \E id \in RasterLayerIds, newId \in ControlLayerIds :
       RasterLayerConvertedToControlLayer(id, newId)

SpecLayers == Init /\ [][NextLayers]_vars

\* ------------------------------------------------------------ properties

\* the part of the module's state the filter claims speak about
ModuleState == <<adapter, imageState, isProcessing>>
RendererState == <<buffer, objectsVisible>>

\* C1: when the completion handler fails (a non-image result, or no image DTO),
\* the failure is raised and the module is left with isProcessing = false and no
\* pending buffer.
C1_FailureLeavesSafeState ==
  last.raised => (isProcessing = FALSE /\ imageState = Null)

\* C2: a matching completion event (with an image result) delivered after
\* cancelFilter is discarded: neither the event nor the handling it starts changes
\* the pending buffer, the adapter binding, or any adapter's buffer and object
\* visibility.
C2_LateEventDiscarded ==
  [][ /\ (last.op = "cancelFilter" /\ last'.op = "event")
         => UNCHANGED <<imageState, adapter, RendererState>>
      /\ (/\ last.op = "event" /\ last.afterCancel
          /\ last'.op = "listenerImageDTO" /\ last'.node = last.node)
         => UNCHANGED <<imageState, adapter, RendererState>> ]_vars

\* C3: applyFilter with no pending buffer, or with no adapter bound, raises
\* nothing, calls neither commitBuffer nor rasterizeEntity, and leaves the pending
\* buffer, the adapter binding and isProcessing as they were.
C3_ApplyUnmetIsNoOp ==
  [][ (last'.op = "applyFilter" /\ (imageState = Null \/ adapter = Null))
      => /\ ~last'.raised
         /\ UNCHANGED <<rasterizeCalls, rasterizeArg, commitBufferCalls>>
         /\ UNCHANGED ModuleState ]_vars

C3_Witness ==
  /\ last.op = "applyFilter"
  /\ last.note = "warn_no_image"
  /\ adapter # Null
  /\ isProcessing

\* C4 as stated: before any previewFilter call, cancelFilter raises nothing and
\* leaves the adapter binding, the pending buffer and isProcessing unchanged,
\* whether or not initialize has bound an adapter.
C4_CancelBeforePreviewIsNoOp ==
  [][ (last'.op = "cancelFilter" /\ ~previewCalled)
      => (~last'.raised /\ UNCHANGED ModuleState) ]_vars

\* C4 as amended: before any previewFilter call, cancelFilter raises nothing,
\* leaves the pending buffer and isProcessing unchanged and commits nothing; with
\* no adapter bound it changes nothing at all, and with an adapter bound it
\* unbinds it, leaving that adapter's buffer empty and its objects shown.
C4_CancelBeforePreviewAmended ==
  [][ (last'.op = "cancelFilter" /\ ~previewCalled)
      => /\ ~last'.raised
         /\ UNCHANGED <<imageState, isProcessing, rasterizeCalls, commitBufferCalls>>
         /\ adapter' = Null
         /\ IF adapter = Null
              THEN UNCHANGED filterVars
              ELSE /\ buffer'[adapter] = Null
                   /\ objectsVisible'[adapter] = TRUE ]_vars

C4_Witness ==
  /\ last.op = "cancelFilter"
  /\ last.ent # Null
  /\ ~previewCalled
  /\ adapter = Null

\* C5: a completion event whose (origin, node id) is not (this module's id, the
\* node id of the most recently submitted job) is ignored: neither the event nor
\* any handling it starts changes the pending buffer, isProcessing, or an
\* adapter's buffer and object visibility.
C5_MismatchedEventIgnored ==
  [][ /\ (last'.op = "event" /\ <<last'.origin, last'.node>> # <<ThisId, LatestNode>>)
         => UNCHANGED <<imageState, isProcessing, RendererState>>
      /\ (/\ last.op = "event" /\ last.stale
          /\ last'.op = "listenerImageDTO" /\ last'.node = last.node)
         => UNCHANGED <<imageState, isProcessing, RendererState>> ]_vars

\* C6: at most one completion listener is registered at any time.
C6_AtMostOneListener == Cardinality(listeners) <= 1

\* C7: once the listener of a job has got past its match check, a further
\* delivery of that job's completion event changes nothing, also while the first
\* handling is still suspended.
C7_SecondDeliveryIgnored ==
  [][ (last'.op = "event" /\ last'.origin = ThisId /\ handled[last'.node] >= 1)
      => UNCHANGED filterVars ]_vars

C7_Witness ==
  /\ last.op = "event"
  /\ last.origin = ThisId
  /\ last.note = "ignored"
  /\ handled[last.node] = 1
  /\ \E t \in tasks : t.node = last.node /\ t.pc = "getImageDTO"

\* C8: after destroy() no adapter is bound.
C8_DestroyReleasesAdapter == last.op = "destroy" => adapter = Null

\* C9: initialize binds the entity's adapter when the entity exists and is a
\* raster_layer or a control_layer; otherwise it raises nothing and leaves the
\* adapter binding, the pending buffer and isProcessing unchanged.
C9_InitializeBindsOnlyFilterable ==
  [][ last'.op = "initialize"
      => LET entity == GetEntity(last'.ent) IN
         IF entity.type \in {"raster_layer", "control_layer"}
           THEN adapter' = entity.adapter
           ELSE ~last'.raised /\ UNCHANGED ModuleState ]_vars

C9_Witness ==
  /\ last.op = "initialize"
  /\ last.ent = "rg_1"
  /\ adapter = "raster_1"
  /\ isProcessing

\* C10: a handled space key-down switches to view, with the buffer holding the
\* tool that was selected and the override flag set; a handled space key-up
\* selects the buffered tool (move when the buffer is empty), empties the buffer
\* and clears the flag; so a key-up that follows a key-down restores the tool
\* the key-down replaced.
HandledSpace(step, op) == step.op = op /\ step.ent = " " /\ step.note = "handled"

C10_SpaceRoundTrip ==
  [][ /\ HandledSpace(last', "keydown")
         => (tool' = "view" /\ toolBuffer' = tool /\ spaceKey' = TRUE)
      /\ HandledSpace(last', "keyup")
         => /\ tool' = (IF toolBuffer = Null THEN "move" ELSE toolBuffer)
            /\ toolBuffer' = Null
            /\ spaceKey' = FALSE
      /\ (HandledSpace(last, "keydown") /\ HandledSpace(last', "keyup"))
         => (tool' = toolBuffer /\ tool' \in Tools) ]_vars

C10_Witness ==
  /\ HandledSpace(last, "keyup")
  /\ tool = "rect"
  /\ toolBuffer = Null
  /\ spaceKey = FALSE

\* a rect drag is in progress: the button is down with the rect tool, on a
\* drawable entity, and the press recorded its anchor
RectDrag ==
  /\ isMouseDown
  /\ tool = "rect"
  /\ IsDrawable(selectedEntity)
  /\ lastMouseDownPos # NoPos

IsEscapeDown(step) == step.op = "keydown" /\ step.ent = "Escape"

\* C11 as stated: every Escape key-down during a rect drag leaves isDrawing false
\* and lastMouseDownPos null with the tool unchanged, and a release that finds no
\* anchor emits no rect, only a press recording an anchor.
C11_EscapeAbortsRect ==
  [][ /\ (RectDrag /\ IsEscapeDown(last'))
         => (isDrawing' = FALSE /\ lastMouseDownPos' = NoPos /\ tool' = tool)
      /\ (lastMouseDownPos = NoPos /\ last'.op = "mouseup")
         => last'.emitted.cb # "onRectShapeAdded"
      /\ (lastMouseDownPos = NoPos /\ lastMouseDownPos' # NoPos)
         => last'.op = "mousedown" ]_vars

\* C11 as amended: an Escape key-down that onKeyDown handles (no auto-repeat, not
\* typed into an input or a textarea) during a rect drag leaves isDrawing false
\* and lastMouseDownPos null with the tool unchanged; a release that finds no
\* anchor emits no rect, and only a press records an anchor, so the release that
\* follows the Escape emits no rect.
C11_HandledEscapeAbortsRect ==
  [][ /\ (RectDrag /\ IsEscapeDown(last') /\ last'.note = "handled")
         => (isDrawing' = FALSE /\ lastMouseDownPos' = NoPos /\ tool' = tool)
      /\ (lastMouseDownPos = NoPos /\ last'.op = "mouseup")
         => last'.emitted.cb # "onRectShapeAdded"
      /\ (lastMouseDownPos = NoPos /\ lastMouseDownPos' # NoPos)
         => last'.op = "mousedown" ]_vars

C11_Witness ==
  /\ IsEscapeDown(last)
  /\ last.aborted
  /\ isMouseDown
  /\ tool = "rect"
  /\ IsDrawable(selectedEntity)
  /\ ~spaceKey
  /\ lastCursorPos # NoPos
  /\ lastMouseDownPos = NoPos
  /\ ~isDrawing

\* a release that reaches the rect branch with an anchor
RectRelease ==
  /\ last'.op = "mouseup"
  /\ tool = "rect"
  /\ IsDrawable(selectedEntity)
  /\ ~spaceKey
  /\ lastCursorPos # NoPos
  /\ lastMouseDownPos # NoPos

Smaller(a, b) == IF a <= b THEN a ELSE b
Distance(a, b) == IF a <= b THEN b - a ELSE a - b

\* C12: with the rect tool the press emits nothing, and the release emits one
\* rect for the selected entity whose x and y are the smaller of the anchor's and
\* the release point's entity-local coordinates and whose width and height are
\* the distances between them; the rect is the same when anchor and release
\* point are swapped, and press (50,80), release (10,20) at origin give
\* {x:10, y:20, width:40, height:60}.
C12_RectOnRelease ==
  [][ /\ (last'.op = "mousedown" /\ tool = "rect") => last'.emitted = NoCall
      /\ RectRelease
         => LET e == selectedEntity
                p == lastCursorPos
                d == lastMouseDownPos
            IN /\ last'.emitted.cb = "onRectShapeAdded"
               /\ last'.emitted.id = e.id
               /\ last'.emitted.args =
                    <<Smaller(p.x - e.x, d.x - e.x), Smaller(p.y - e.y, d.y - e.y),
                      Distance(p.x, d.x), Distance(p.y, d.y)>>
               /\ last'.emitted.args[3] >= 0
               /\ last'.emitted.args[4] >= 0
               /\ last'.emitted.args = RectOf(e, d, p)
      /\ RectOf([id |-> "layer_1", type |-> "layer", x |-> 0, y |-> 0],
                [x |-> 10, y |-> 20], [x |-> 50, y |-> 80]) = <<10, 20, 40, 60>> ]_vars

C12_Witness ==
  /\ last.op = "mouseup"
  /\ last.emitted.cb = "onRectShapeAdded"
  /\ last.emitted.id = "layer_1"
  /\ last.emitted.args = <<10, 20, 40, 60>>
  /\ lastCursorPos = [x |-> 10, y |-> 20]

\* the release of the drag from (50,80) to (90,80) on the entity at origin
FlatRectRelease ==
  /\ RectRelease
  /\ selectedEntity.x = 0
  /\ selectedEntity.y = 0
  /\ lastMouseDownPos = [x |-> 50, y |-> 80]
  /\ lastCursorPos = [x |-> 90, y |-> 80]

\* C13 as stated: on an entity at origin, press (50,80) and release (90,80) with
\* the rect tool emit the rect {x:50, y:20, width:40, height:0}.
C13_FlatRectAsStated ==
  [][ FlatRectRelease
      => (last'.emitted.cb = "onRectShapeAdded" /\ last'.emitted.args = <<50, 20, 40, 0>>) ]_vars

\* C13 as amended: on an entity at origin, press (50,80) and release (90,80) with
\* the rect tool emit the rect {x:50, y:80, width:40, height:0}.
C13_FlatRectAmended ==
  [][ FlatRectRelease
      => (last'.emitted.cb = "onRectShapeAdded" /\ last'.emitted.args = <<50, 80, 40, 0>>) ]_vars

C13_Witness ==
  /\ last.op = "mouseup"
  /\ last.emitted.cb = "onRectShapeAdded"
  /\ last.emitted.args = <<50, 80, 40, 0>>
  /\ selectedEntity.x = 0
  /\ lastCursorPos = [x |-> 90, y |-> 80]

PointOf(args) == [x |-> args[1], y |-> args[2]]

\* C14: a point handed to onPointAddedToLine while a stroke is active (button
\* down, isDrawing, a point already added) is not closer to the last added point
\* of the stroke than minSpacingPx, both taken relative to the selected entity;
\* and a move continuing the stroke at exactly minSpacingPx from the last added
\* point does emit a point.
C14_MinSpacingKept ==
  [][ /\ (/\ last'.emitted.cb = "onPointAddedToLine"
          /\ tool \in DrawingTools /\ isMouseDown /\ isDrawing /\ lastAddedPoint # NoPos)
         => ~Closer(PointOf(EntityLocal(selectedEntity, lastAddedPoint)),
                    PointOf(last'.emitted.args), MinSpacingPx)
      /\ (/\ last'.op = "mousemove" /\ last'.note \in {"point", "too_close"}
          /\ lastAddedPoint # NoPos
          /\ ~Closer(lastAddedPoint, lastCursorPos', MinSpacingPx)
          /\ ~Closer(lastCursorPos', lastAddedPoint, MinSpacingPx + 1))
         => last'.emitted.cb = "onPointAddedToLine" ]_vars

\* C15: the press sets isDrawing and records lastMouseDownPos exactly when a
\* position is resolved, the selected entity is drawable, the tool is brush,
\* eraser or rect, and the space override is off; otherwise it leaves isDrawing
\* and lastMouseDownPos as they were and invokes no callback.
C15_PressStartsOnlyDrawableInteraction ==
  [][ last'.op = "mousedown"
      => IF /\ last'.note # "no_position"
            /\ IsDrawable(selectedEntity)
            /\ tool \in {"brush", "eraser", "rect"}
            /\ ~spaceKey
           THEN isDrawing' = TRUE /\ lastMouseDownPos' = lastCursorPos'
           ELSE UNCHANGED <<isDrawing, lastMouseDownPos>> /\ last'.emitted = NoCall ]_vars

PointerOps == {"mousedown", "mouseup", "mousemove", "mouseleave", "mouseenter"}

PrimitiveCallbacks ==
  {"onBrushLineAdded", "onEraserLineAdded", "onPointAddedToLine", "onRectShapeAdded"}

\* C16: while isStaging or isTransforming is set, a pointer event handled with
\* the tool brush, eraser or rect invokes none of the primitive callbacks.
C16_NoPrimitiveWhileModal ==
  [][ (/\ isStaging \/ isTransforming
       /\ last'.op \in PointerOps
       /\ tool \in {"brush", "eraser", "rect"})
      => last'.emitted.cb \notin PrimitiveCallbacks ]_vars

\* C17: after the pointer-leave handler has run, isMouseDown and isDrawing are
\* false and lastCursorPos, lastMouseDownPos and lastAddedPoint are null.
C17_LeaveResetsInteractionState ==
  last.op = "mouseleave"
  => /\ isMouseDown = FALSE
     /\ isDrawing = FALSE
     /\ lastCursorPos = NoPos
     /\ lastMouseDownPos = NoPos
     /\ lastAddedPoint = NoPos

\* a step of the wheel-zoom, drag-move or drag-end handler that published a
\* viewport
Published(step) ==
  /\ step.op \in {"wheel", "dragmove", "dragend"}
  /\ step.emitted.cb = "setStageAttrs"

\* C18: every viewport published by the wheel-zoom, drag-move and drag-end
\* handlers has x and y at whole pixels.
C18_PublishedPositionIsInteger ==
  Published(last)
  => /\ last.emitted.args[1] % SubPixels = 0
     /\ last.emitted.args[2] % SubPixels = 0

\* C19: the stage scale stays within [MIN_CANVAS_SCALE, MAX_CANVAS_SCALE], and
\* so does every scale published by the wheel-zoom and drag handlers.
C19_ScaleWithinLimits ==
  /\ MinScaleExp <= stageScale
  /\ stageScale <= MaxScaleExp
  /\ Published(last)
     => (MinScaleExp <= last.emitted.args[3] /\ last.emitted.args[3] <= MaxScaleExp)

C19_Witness ==
  /\ last.op = "wheel"
  /\ last.note = "zoom"
  /\ last.delta = 2
  /\ stageScale = MaxScaleExp
  /\ last.emitted.args[3] = MaxScaleExp

\* C20: a wheel-zoom multiplies the scale by CANVAS_SCALE_BY once, up or down
\* by the sign of the delta, and clamps it: the new scale does not depend on the
\* magnitude of the delta.
C20_ZoomStepBySignOnly ==
  [][ (last'.op = "wheel" /\ last'.note = "zoom")
      => stageScale' = Clamp(stageScale + Sign(last'.delta), MinScaleExp, MaxScaleExp) ]_vars

\* the two sides of "the document point under `c` before the zoom is under `c`
\* after it", for one axis: (c - u) / 2^scale = (c - newU) / 2^newScale, with
\* both sides multiplied by 2^(scale + newScale + 2 * MaxScaleExp)
AnchoredAt(c, u, scale, newU, newScale) ==
  (c * SubPixels - newU) * Pow(CANVAS_SCALE_BY, scale + MaxScaleExp)
    = (c * SubPixels - u) * Pow(CANVAS_SCALE_BY, newScale + MaxScaleExp)

\* C21: after a wheel-zoom at the screen cursor point c, the document point
\* that was under c before the zoom, (c - old position) / old scale, is under c
\* again: new position + that point * new scale = c, clamped scale or not.
C21_ZoomToCursor ==
  [][ (last'.op = "wheel" /\ last'.note = "zoom")
      => \A c \in CursorPoints :
           Wheel(FALSE, FALSE, last'.delta, c)
           => /\ AnchoredAt(c.x, stagePos.x, stageScale, stagePos'.x, stageScale')
              /\ AnchoredAt(c.y, stagePos.y, stageScale, stagePos'.y, stageScale') ]_vars

\* a zoom in by two steps that ended at the upper scale limit with the cursor
\* away from the stage origin, so that the stage moved up and left
C21_Witness ==
  /\ last.op = "wheel"
  /\ last.note = "zoom"
  /\ last.delta = 2
  /\ stageScale = MaxScaleExp
  /\ stagePos.x < 0
  /\ stagePos.y < 0

\* a step of the wheel handler that called calculateNewBrushSize; `WidthOf` is
\* the width it passed
SizeSteps == {"brush_size", "eraser_size"}
WidthOf(step) == IF step.note = "brush_size" THEN brushWidth ELSE eraserWidth

\* C22: for every current width w in [1,500] and every wheel delta,
\* calculateNewBrushSize(w, delta) lies within [1,500] and differs from w by at
\* most 20; a zero delta returns w unchanged.
C22_NewBrushSizeBounded ==
  (last.op = "wheel" /\ last.note \in SizeSteps)
  => LET w == WidthOf(last) * FixedPoint
         new == last.emitted.args[1]
     IN /\ MinBrushSize * FixedPoint <= new
        /\ new <= MaxBrushSize * FixedPoint
        /\ Abs(new - w) <= BrushDeltaLimit * FixedPoint
        /\ last.delta = 0 => new = w

\* a wheel step on a brush near the upper limit, where both clamps act
C22_Witness ==
  /\ last.op = "wheel"
  /\ last.note = "brush_size"
  /\ last.delta > 0
  /\ brushWidth = MaxBrushSize - 1
  /\ last.emitted.args[1] = MaxBrushSize * FixedPoint

\* the node ids of the submitted jobs whose completion no listener has handled
\* or is handling
Uncompleted == {n \in enqueued : handled[n] = 0}

\* C23: previewFilter registers the completion listener and sets isProcessing
\* before it submits the job: a completion event delivered at any time after
\* the submission finds the job's listener registered, and isProcessing is set
\* to true only by a submission, whose job has not completed then.
C23_ListenerBeforeSubmit ==
  [][ /\ \A n \in Uncompleted' : \E l \in listeners' : l.node = n
      /\ (isProcessing' /\ ~isProcessing) => last'.op = "previewSubmit"
      /\ last'.op = "previewSubmit"
         => /\ isProcessing'
            /\ enqueued' \ enqueued = {nextNode}
            /\ handled[nextNode] = 0
            /\ \A t \in tasks : t.node # nextNode ]_vars

\* the completion of the latest job, delivered straight after its submission,
\* was matched by the job's listener
C23_Witness ==
  /\ last.op = "event"
  /\ last.note = "matched"
  /\ ~last.stale
  /\ handled[last.node] = 1
  /\ isProcessing
  /\ rasterizing = [a \in Adapters |-> 0]
  /\ Cardinality(enqueued) = 1

\* what applyFilter commits: the renderer's and the document state's calls
CommitCalls == <<commitBufferCalls, rasterizeCalls, rasterizeArg>>

\* C24: applyFilter with a pending buffer and a bound adapter commits exactly
\* once (one commitBuffer, one rasterizeEntity with replaceObjects = true for
\* the bound entity), shows the entity's objects again and leaves the module
\* with no pending buffer and no adapter; an applyFilter straight after it
\* commits nothing further.
C24_ApplyCommitsOnce ==
  [][ /\ (last'.op = "applyFilter" /\ imageState # Null /\ adapter # Null)
         => /\ commitBufferCalls' = commitBufferCalls + 1
            /\ rasterizeCalls' = rasterizeCalls + 1
            /\ rasterizeArg'.entity = adapter
            /\ rasterizeArg'.image = imageState
            /\ rasterizeArg'.replaceObjects
            /\ buffer'[adapter] = Null
            /\ objectsVisible'[adapter]
            /\ imageState' = Null
            /\ adapter' = Null
      /\ (last.op = "applyFilter" /\ last.note = "applied" /\ last'.op = "applyFilter")
         => /\ UNCHANGED CommitCalls
            /\ UNCHANGED <<ModuleState, RendererState>> ]_vars

\* a second applyFilter after the single commit of a previewed image
C24_Witness ==
  /\ last.op = "applyFilter"
  /\ last.note = "warn_no_image"
  /\ commitBufferCalls = 1
  /\ rasterizeCalls = 1
  /\ rasterizeArg.replaceObjects
  /\ objectsVisible[rasterizeArg.entity]
  /\ buffer[rasterizeArg.entity] = Null
  /\ adapter = Null
  /\ tasks = {}
  /\ listeners = {}

\* C25: the rectangle applyFilter passes to rasterizeEntity has the rounded x
\* and y of the adapter's relative rect, the width of the pending buffer's image
\* and the height of the pending buffer's image.
C25_CommitRectMatchesImage ==
  [][ (last'.op = "applyFilter" /\ last'.note = "applied")
      => /\ rasterizeArg'.x = Round(RelativeRect(adapter).x)
         /\ rasterizeArg'.y = Round(RelativeRect(adapter).y)
         /\ rasterizeArg'.width = ImageWidth(imageState)
         /\ rasterizeArg'.height = ImageHeight(imageState) ]_vars

\* C26: the preview is non-destructive: initialize, previewFilter, completion
\* events and cancelFilter never invoke rasterizeEntity or commitBuffer; only
\* applyFilter does.
C26_PreviewNonDestructive ==
  [][ last'.op # "applyFilter" => UNCHANGED CommitCalls ]_vars

\* a preview ran to its end, the image in the buffer and the objects hidden,
\* with nothing committed
C26_Witness ==
  /\ last.op = "listenerSetBufferDone"
  /\ imageState # Null
  /\ \E a \in Adapters : buffer[a] # Null /\ ~objectsVisible[a]
  /\ commitBufferCalls = 0
  /\ rasterizeCalls = 0
  /\ rasterizeArg = NoRasterize

\* C27: every point a handler passes to onPointAddedToLine, pointer-move and
\* pointer-leave alike, is the cursor position minus the selected entity's
\* origin.
C27_PointsEntityLocal ==
  [][ last'.emitted.cb = "onPointAddedToLine"
      => \A pos \in Positions :
           (MouseMove(pos) \/ MouseLeave(pos))
           => last'.emitted.args = <<pos.x - selectedEntity.x, pos.y - selectedEntity.y>> ]_vars

\* C28: a brush or eraser press on a drawable entity, space not held, emits
\* exactly one line-added callback and sets lastAddedPoint to the press
\* position p: with shift held and a prior lastAddedPoint q the line is the
\* segment from q to p, otherwise the degenerate segment from p to p, both
\* entity-local.
C28_PressEmitsOneLine ==
  [][ \A pos \in Positions, shiftKey \in BOOLEAN :
        (/\ last'.op = "mousedown"
         /\ tool \in DrawingTools
         /\ IsDrawable(selectedEntity)
         /\ ~spaceKey
         /\ MouseDown(pos, shiftKey))
        => /\ lastAddedPoint' = pos
           /\ last'.emitted.cb = LineCallback(tool)
           /\ last'.emitted.id = selectedEntity.id
           /\ last'.emitted.args =
                IF shiftKey /\ lastAddedPoint # NoPos
                  THEN <<lastAddedPoint.x - selectedEntity.x, lastAddedPoint.y - selectedEntity.y,
                         pos.x - selectedEntity.x, pos.y - selectedEntity.y>>
                  ELSE <<pos.x - selectedEntity.x, pos.y - selectedEntity.y,
                         pos.x - selectedEntity.x, pos.y - selectedEntity.y>> ]_vars

WidthCallbacks == {"onBrushWidthChanged", "onEraserWidthChanged"}

\* C29: a wheel event adjusts the brush or eraser width, and leaves the
\* viewport unchanged, exactly when ctrl or meta is held and the tool is brush
\* or eraser; every other wheel event with a resolved pointer position zooms
\* and adjusts no width.
C29_WheelRouting ==
  [][ \A ctrlKey \in BOOLEAN, metaKey \in BOOLEAN, deltaY \in Deltas,
         cursorPos \in CursorPoints \cup {NoPos} :
        (/\ last'.op = "wheel"
         /\ last'.delta = deltaY
         /\ Wheel(ctrlKey, metaKey, deltaY, cursorPos))
        => IF (ctrlKey \/ metaKey) /\ tool \in DrawingTools
             THEN /\ last'.emitted.cb \in WidthCallbacks
                  /\ UNCHANGED viewVars
             ELSE /\ last'.emitted.cb \notin WidthCallbacks
                  /\ cursorPos # NoPos
                     => /\ last'.note = "zoom"
                        /\ last'.emitted.cb = "setStageAttrs" ]_vars

\* C30: with the invert-scroll setting on, the wheel delta's sign is flipped
\* before both branches: the new brush or eraser size and the new scale are
\* those of the opposite delta with the setting off.
C30_InvertScrollBothBranches ==
  [][ (last'.op = "wheel" /\ invertScroll)
      => /\ last'.note \in SizeSteps
            => last'.emitted.args[1] = CalculateNewBrushSize(WidthOf(last'), 0 - last'.delta)
         /\ last'.note = "zoom"
            => stageScale' = NewScale(stageScale, 0 - last'.delta) ]_vars

\* C31: in every reachable state of the filter module, under any interleaving
\* of initialize, previewFilter (suspended while it rasterizes), completion
\* events, applyFilter and cancelFilter, isProcessing implies that an adapter
\* is bound.
C31_ProcessingImpliesAdapter == isProcessing => adapter # Null

\* C32: after any sequence of pointer and key events (press, release, move,
\* leave, space down and up, Escape), isDrawing implies isMouseDown.
C32_DrawingImpliesMouseDown == isDrawing => isMouseDown

\* C33: every onPointAddedToLine callback for an entity is preceded, since the
\* most recent press, by an onBrushLineAdded or onEraserLineAdded callback for
\* the same entity.
C33_PointFollowsLineOfPress ==
  [][ last'.emitted.cb = "onPointAddedToLine"
      => last'.emitted.id \in linesSincePress ]_vars

\* C34: after the cleanup function has been called no handler that
\* setStageEventHandlers registered remains bound, and no later event runs a
\* handler or invokes a callback.
C34_CleanupUnbindsAll ==
  [][ /\ last'.op = "cleanup" => handlers' = {}
      /\ last.op = "cleanup"
         => /\ last'.op \notin StageEvents \cup WindowEvents
            /\ last'.emitted = NoCall ]_vars

\* a selection of a raster or control layer names a layer of that list
SelectionExists ==
  /\ selectedEntityIdentifier.type = "raster_layer"
     => selectedEntityIdentifier.id \in IdsOf(rasterLayers)
  /\ selectedEntityIdentifier.type = "control_layer"
     => selectedEntityIdentifier.id \in IdsOf(controlLayers)

\* C35: after any sequence of the raster-layer reducers a selection of type
\* raster_layer or control_layer refers to an entity of the corresponding
\* list; converting an existing raster layer removes it, adds one control
\* layer with the new id and selects that; converting an unknown id changes
\* nothing.
C35_SelectionRefersToLayer ==
  [][ /\ SelectionExists'
      /\ last'.op = "rasterLayerConvertedToControlLayer"
         => \A id \in RasterLayerIds, newId \in ControlLayerIds :
              RasterLayerConvertedToControlLayer(id, newId)
              => IF id \in IdsOf(rasterLayers)
                   THEN /\ id \notin IdsOf(rasterLayers')
                        /\ controlLayers' = controlLayers \o <<newId>>
                        /\ selectedEntityIdentifier' = [type |-> "control_layer", id |-> newId]
                   ELSE UNCHANGED layerVars ]_vars

====
